---- MODULE Spec2Model ----
(***************************************************************************)
(* A model of scripts/pid_official.py: the PID controller, the JetRacer    *)
(* controller node with its pose callback, the angle helper and main.      *)
(*                                                                         *)
(* Numbers.  A Python float is modelled as a record: a finite value is a   *)
(* fixed-point integer in units of 1/SCALE ([k |-> "fin", v |-> n] stands  *)
(* for n/SCALE), and the IEEE-754 specials NaN, +inf and -inf are kept as  *)
(* values of their own with the arithmetic and the comparisons Python      *)
(* gives them.  The model has one zero (no -0.0) and finite values do not  *)
(* overflow.                                                               *)
(***************************************************************************)
EXTENDS Integers, Sequences, FiniteSets, TLC

\* ------------------------------------------------------------------ bounds
\* pose callbacks (or update/reset calls) explored per behaviour
MaxSteps == 2
\* clock readings are 0 .. MaxTime seconds
MaxTime == 1
\* angle_wrap is applied to -MaxTurns*pi .. MaxTurns*pi in steps of pi/8 (the
\* difference of two atan2 results lies within two half turns)
MaxTurns == 2
\* command line: the script name and at most MaxArgs arguments
MaxArgs == 3
\* update and reset calls on the PIDController exercised alone
MaxCalls == 3

\* ------------------------------------------------------------- float model
\* fixed-point resolution of a finite float: 1.0 is SCALE units
SCALE == 10000

F(n) == [k |-> "fin", v |-> n]
NaN == [k |-> "nan", v |-> 0]
PInf == [k |-> "inf", v |-> 1]
NInf == [k |-> "inf", v |-> -1]
\* the outcome of a float division by zero, which raises in Python
ZDE == [k |-> "ZeroDivisionError", v |-> 0]
Zero == F(0)

IsNaN(a) == a.k = "nan"
IsFin(a) == a.k = "fin"
IsInf(a) == a.k = "inf"

Abs(n) == IF n < 0 THEN -n ELSE n
Sgn(n) == IF n < 0 THEN -1 ELSE IF n > 0 THEN 1 ELSE 0

\* a / b rounded to the nearest integer, b > 0
RoundDivPos(a, b) ==
    IF a >= 0 THEN (2 * a + b) \div (2 * b) ELSE -((2 * (-a) + b) \div (2 * b))

\* a / b rounded to the nearest integer, b # 0
RoundDiv(a, b) == IF b > 0 THEN RoundDivPos(a, b) ELSE RoundDivPos(-a, -b)

FNeg(a) == IF IsNaN(a) THEN NaN ELSE [k |-> a.k, v |-> -a.v]

FAdd(a, b) ==
    IF IsNaN(a) \/ IsNaN(b) THEN NaN
    ELSE IF IsInf(a) /\ IsInf(b) THEN (IF a.v = b.v THEN a ELSE NaN)
    ELSE IF IsInf(a) THEN a
    ELSE IF IsInf(b) THEN b
    ELSE F(a.v + b.v)

FSub(a, b) == FAdd(a, FNeg(b))

FMul(a, b) ==
    IF IsNaN(a) \/ IsNaN(b) THEN NaN
    ELSE IF IsInf(a) \/ IsInf(b)
         THEN (IF Sgn(a.v) * Sgn(b.v) = 0 THEN NaN
               ELSE [k |-> "inf", v |-> Sgn(a.v) * Sgn(b.v)])
    ELSE F(RoundDiv(a.v * b.v, SCALE))

\* Python's a / b on floats: a zero divisor raises ZeroDivisionError
FDiv(a, b) ==
    IF IsFin(b) /\ b.v = 0 THEN ZDE
    ELSE IF IsNaN(a) \/ IsNaN(b) THEN NaN
    ELSE IF IsInf(a) /\ IsInf(b) THEN NaN
    ELSE IF IsInf(a) THEN [k |-> "inf", v |-> a.v * Sgn(b.v)]
    ELSE IF IsInf(b) THEN Zero
    ELSE F(RoundDiv(a.v * SCALE, b.v))

\* a < b; every comparison with NaN is false
FLt(a, b) ==
    /\ ~IsNaN(a)
    /\ ~IsNaN(b)
    /\ IF IsInf(a) THEN a.v = -1 /\ ~(IsInf(b) /\ b.v = -1)
       ELSE IF IsInf(b) THEN b.v = 1
       ELSE a.v < b.v

FGt(a, b) == FLt(b, a)

FLe(a, b) == ~IsNaN(a) /\ ~IsNaN(b) /\ ~FLt(b, a)

\* Python's min(a, b) and max(a, b): the first argument unless the second
\* compares smaller (larger), so a NaN first argument is returned
PyMin(a, b) == IF FLt(b, a) THEN b ELSE a
PyMax(a, b) == IF FGt(b, a) THEN b ELSE a

\* --------------------------------------------------------------- constants
\* math.pi and fractions of it, in 1/SCALE
PI == 31416
TWO_PI == 2 * PI
HALF_PI == PI \div 2
QUARTER_PI == PI \div 4
\* module constants of the script, in 1/SCALE
ERR_EPSILON == 2000
HEADING_BIAS == 400
X_ARG == 1
Y_ARG == 2
STEER_MAX == 10000
STEER_MIN == -10000
THROTTLE_MAX == 2000
THROTTLE_MIN == 0

\* ------------------------------------------------------- library functions
RECURSIVE SqrtSearch(_, _, _)
\* the largest r in lo .. hi with r * r <= n
SqrtSearch(n, lo, hi) ==
    IF lo >= hi THEN lo
    ELSE LET mid == (lo + hi + 1) \div 2
         IN  IF mid * mid <= n THEN SqrtSearch(n, mid, hi)
             ELSE SqrtSearch(n, lo, mid - 1)

\* math.hypot: an infinite argument gives +inf even beside a NaN
Hypot(dx, dy) ==
    IF IsInf(dx) \/ IsInf(dy) THEN PInf
    ELSE IF IsNaN(dx) \/ IsNaN(dy) THEN NaN
    ELSE F(SqrtSearch(dx.v * dx.v + dy.v * dy.v, 0, Abs(dx.v) + Abs(dy.v)))

\* atan(z / SCALE) for 0 <= z <= SCALE, in 1/SCALE:
\* z*pi/4 + 0.273*z*(1 - z), exact at 0 and at 1
AtanUnit(z) ==
    RoundDiv(z * QUARTER_PI, SCALE) + RoundDiv(2730 * z * (SCALE - z), SCALE * SCALE)

\* math.atan2 on finite arguments (integers in 1/SCALE); atan2(0, 0) = 0
Atan2Fin(y, x) ==
    IF x = 0 /\ y = 0 THEN 0
    ELSE LET ax == Abs(x)
             ay == Abs(y)
             base == IF ax >= ay THEN AtanUnit(RoundDiv(ay * SCALE, ax))
                     ELSE HALF_PI - AtanUnit(RoundDiv(ax * SCALE, ay))
             angle == IF x >= 0 THEN base ELSE PI - base
         IN  IF y < 0 THEN -angle ELSE angle

\* math.atan2 with the IEEE special cases
Atan2(y, x) ==
    IF IsNaN(y) \/ IsNaN(x) THEN NaN
    ELSE IF IsInf(y) /\ IsInf(x)
         THEN F(y.v * (IF x.v = 1 THEN QUARTER_PI ELSE PI - QUARTER_PI))
    ELSE IF IsInf(y) THEN F(y.v * HALF_PI)
    ELSE IF IsInf(x) THEN (IF x.v = 1 THEN Zero
                           ELSE IF y.v < 0 THEN F(-PI) ELSE F(PI))
    ELSE F(Atan2Fin(y.v, x.v))

\* ------------------------------------------------------------ angle helpers
RECURSIVE AngleWrapDown(_)
\* while angle > math.pi: angle -= 2 * math.pi
AngleWrapDown(angle) ==
    IF FGt(angle, F(PI)) THEN AngleWrapDown(FSub(angle, F(TWO_PI))) ELSE angle

RECURSIVE AngleWrapUp(_)
\* while angle < -math.pi: angle += 2 * math.pi
AngleWrapUp(angle) ==
    IF FLt(angle, F(-PI)) THEN AngleWrapUp(FAdd(angle, F(TWO_PI))) ELSE angle

\* JetRacerController.angle_wrap (applied to finite angles and to NaN; on an
\* infinite angle the first loop of the code does not end)
angle_wrap(angle) == AngleWrapUp(AngleWrapDown(angle))

\* the yaw of euler_from_quaternion; roll and pitch are computed from clamped
\* arguments, raise nothing and are discarded by the caller
euler_from_quaternion(x, y, z, w) ==
    LET t3 == FMul(F(2 * SCALE), FAdd(FMul(w, z), FMul(x, y)))
        t4 == FSub(F(SCALE), FMul(F(2 * SCALE), FAdd(FMul(y, y), FMul(z, z))))
    IN  Atan2(t3, t4)

\* ----------------------------------------------------------- PIDController
\* PIDController.__init__ with time.time() returning t
PIDNew(kp, ki, kd, t) ==
    [set |-> TRUE, kp |-> kp, ki |-> ki, kd |-> kd,
     integral |-> Zero, last_error |-> Zero, last_time |-> t]

\* an attribute that has not been assigned yet
NoPID ==
    [set |-> FALSE, kp |-> Zero, ki |-> Zero, kd |-> Zero,
     integral |-> Zero, last_error |-> Zero, last_time |-> Zero]

\* a reset that leaves the integral as it was
PIDResetKeepsIntegral(p, t) ==
    [p EXCEPT !.last_error = Zero, !.last_time = t]

\* PIDController.reset with time.time() returning t
PIDReset(p, t) ==
    [p EXCEPT !.integral = Zero, !.last_error = Zero, !.last_time = t]

\* a guard that lets a negative dt through: de / dt if dt != 0 else 0
DerivativeUnlessZeroDt(de, dt) ==
    IF IsFin(dt) /\ dt.v = 0 THEN Zero ELSE FDiv(de, dt)

\* derivative = de / dt if dt > 0 else 0
Derivative(de, dt) == IF FGt(dt, Zero) THEN FDiv(de, dt) ELSE Zero

\* PIDController.update with time.time() returning t: the controller after
\* the call, the value returned and the locals.  A raised ZeroDivisionError
\* leaves the integral updated and last_error, last_time as they were.
PIDUpdate(p, error, t) ==
    LET dt == FSub(t, p.last_time)
        de == FSub(error, p.last_error)
        integral == FAdd(p.integral, FMul(error, dt))
        derivative == Derivative(de, dt)
        output == FAdd(FAdd(FMul(p.kp, error), FMul(p.ki, integral)),
                       FMul(p.kd, derivative))
    IN  IF derivative = ZDE
        THEN [pid |-> [p EXCEPT !.integral = integral], exc |-> "ZeroDivisionError",
              out |-> Zero, error |-> error, dt |-> dt, de |-> de,
              derivative |-> Zero]
        ELSE [pid |-> [p EXCEPT !.integral = integral, !.last_error = error,
                                !.last_time = t],
              exc |-> "none", out |-> output, error |-> error, dt |-> dt,
              de |-> de, derivative |-> derivative]

\* ------------------------------------------------------ JetRacerController
\* steering = max(min(steering + HEADING_BIAS, 1.0), -1.0)
Steering(raw) ==
    PyMax(PyMin(FAdd(raw, F(HEADING_BIAS)), F(STEER_MAX)), F(STEER_MIN))

\* a deadband that is open at ERR_EPSILON: ... if goal_dist >= ERR_EPSILON
ThrottleFromEpsilon(raw, goal_dist) ==
    IF FLe(F(ERR_EPSILON), goal_dist)
    THEN PyMax(PyMin(raw, F(THROTTLE_MAX)), F(THROTTLE_MIN))
    ELSE Zero

\* throttle = max(min(throttle, 0.2), 0.0) if goal_dist > ERR_EPSILON else 0.0
Throttle(raw, goal_dist) ==
    IF FGt(goal_dist, F(ERR_EPSILON))
    THEN PyMax(PyMin(raw, F(THROTTLE_MAX)), F(THROTTLE_MIN))
    ELSE Zero

\* an element of GOAL: a number, or a command-line string
Num(f) == [t |-> "num", f |-> f, s |-> ""]
Str(s) == [t |-> "str", f |-> Zero, s |-> s]

\* GOAL = [0, 0]
GOAL_DEFAULT == <<Num(Zero), Num(Zero)>>

\* self.goal before its assignment
NoGoal == [set |-> FALSE, xy |-> GOAL_DEFAULT]

\* the gains of heading_pid and distance_pid
HeadingGains == [kp |-> F(3000), ki |-> Zero, kd |-> F(200)]
DistanceGains == [kp |-> F(2500), ki |-> Zero, kd |-> F(4000)]

\* the locals of a pose callback that has not run
NoCallback ==
    [outcome |-> "none", x |-> Zero, y |-> Zero, yaw |-> Zero,
     goal_dist |-> Zero, heading_error |-> Zero,
     raw_steering |-> Zero, raw_throttle |-> Zero]

\* pose_callback, lines 65-75: the pose read from the message and the two
\* errors.  self.goal not assigned yet raises AttributeError at line 71; a
\* string in the goal raises TypeError at the subtraction.
pose_callback_errors(g, msg) ==
    LET yaw == euler_from_quaternion(msg.qx, msg.qy, msg.qz, msg.qw)
        dx == FSub(g.xy[1].f, msg.x)
        dy == FSub(g.xy[2].f, msg.y)
        goal_heading == Atan2(dy, dx)
        seen == [NoCallback EXCEPT !.x = msg.x, !.y = msg.y, !.yaw = yaw]
    IN  IF ~g.set THEN [seen EXCEPT !.outcome = "AttributeError"]
        ELSE IF g.xy[1].t = "str" \/ g.xy[2].t = "str"
             THEN [seen EXCEPT !.outcome = "TypeError"]
        ELSE [seen EXCEPT !.outcome = "running",
                          !.goal_dist = Hypot(dx, dy),
                          !.heading_error = angle_wrap(FSub(goal_heading, yaw))]

\* pose_callback, lines 77-86, with time.time() returning t1 in
\* heading_pid.update and t2 in distance_pid.update: the attributes after the
\* call, what was published and the locals.  A controller not assigned yet
\* raises AttributeError where it is read (lines 78, 79).
pose_callback_control(hp, dp, e, t1, t2) ==
    LET h == PIDUpdate(hp, e.heading_error, t1)
        d == PIDUpdate(dp, e.goal_dist, t2)
        raised(l, hp2) ==
            [heading_pid |-> hp2, distance_pid |-> dp, published |-> FALSE,
             steering |-> Zero, throttle |-> Zero, cb |-> l]
    IN  IF e.outcome # "running" THEN raised(e, hp)
        ELSE IF ~hp.set THEN raised([e EXCEPT !.outcome = "AttributeError"], hp)
        ELSE IF ~dp.set
             THEN raised([e EXCEPT !.outcome = "AttributeError",
                                   !.raw_steering = h.out], h.pid)
        ELSE [heading_pid |-> h.pid, distance_pid |-> d.pid, published |-> TRUE,
              steering |-> Steering(h.out),
              throttle |-> Throttle(d.out, e.goal_dist),
              cb |-> [e EXCEPT !.outcome = "ok", !.raw_steering = h.out,
                               !.raw_throttle = d.out]]

\* ------------------------------------------------------------------- main
SCRIPT == "pid_official.py"
Tokens == {"1.5", "2", "-0.5", "abc"}
\* the tokens that read as a coordinate
IsNumeric(tok) == tok \in {"1.5", "2", "-0.5"}

RECURSIVE ArgLists(_)
\* the argument lists of length n
ArgLists(n) ==
    IF n = 0 THEN {<< >>}
    ELSE {Append(a, tok) : a \in ArgLists(n - 1), tok \in Tokens}

\* sys.argv: the script name, then 0 .. MaxArgs arguments
Argvs == {<<SCRIPT>> \o a : a \in UNION {ArgLists(n) : n \in 0 .. MaxArgs}}

\* ------------------------------------------------------------------ inputs
\* time.time() is the wall clock: any reading, also an earlier one
Times == {F(t * SCALE) : t \in 0 .. MaxTime}

Pose(x, y, qx, qy, qz, qw) ==
    [x |-> x, y |-> y, qx |-> qx, qy |-> qy, qz |-> qz, qw |-> qw]

\* yaw 0, pi/2 and pi
QIdent(x, y) == Pose(x, y, Zero, Zero, Zero, F(SCALE))
QLeft(x, y) == Pose(x, y, Zero, Zero, F(7071), F(7071))
QBack(x, y) == Pose(x, y, Zero, Zero, F(SCALE), Zero)

\* the goal is the origin: poses at 1 m, 0.5 m, on the deadband's edge and at
\* the goal, one at the goal turned left, one behind the goal facing away
\* from it, one with an infinite coordinate and one with a NaN quaternion
Poses ==
    { QIdent(F(SCALE), Zero), QIdent(F(5000), Zero), QIdent(F(ERR_EPSILON), Zero),
      QIdent(Zero, Zero), QLeft(Zero, Zero), QBack(F(-SCALE), Zero),
      QIdent(PInf, Zero), Pose(Zero, Zero, Zero, Zero, Zero, NaN) }

\* gains of the PIDController exercised alone: the two of the node and one
\* with an integral term
Gains == {HeadingGains, DistanceGains, [kp |-> F(SCALE), ki |-> F(5000), kd |-> F(1000)]}
Errors == {Zero, F(SCALE), F(-5000), F(ERR_EPSILON), NaN, PInf}

WrapInputs ==
    {F(n * (PI \div 8) + o) : n \in (-8 * MaxTurns) .. (8 * MaxTurns), o \in {-1, 0, 1}}

\* ------------------------------------------------------------------- state
VARIABLES
    cpc,            \* JetRacerController.__init__: the next statement
    goal,           \* self.goal
    heading_pid,    \* self.heading_pid
    distance_pid,   \* self.distance_pid
    steering,       \* the last value published on /jetracer/steering
    throttle,       \* the last value published on /jetracer/throttle
    cb,             \* the locals of the last pose_callback
    steps,          \* calls made so far
    pid,            \* a PIDController exercised alone
    twin,           \* a second one, constructed when the first is reset
    upd,            \* its last call: the operation, the clock reading, the locals
    wrapIn,         \* the argument of angle_wrap
    wrapOut,        \* its result
    argv,           \* sys.argv
    mpc,            \* main: the next statement
    GOAL,           \* the module's GOAL list
    usage,          \* the usage message has been printed
    mexc,           \* the exception main ended with
    constructed,    \* JetRacerController() has been called
    spinning        \* rospy.spin() has been entered

ctlVars == <<cpc, goal, heading_pid, distance_pid, steering, throttle, cb>>
pidVars == <<pid, twin, upd>>
wrapVars == <<wrapIn, wrapOut>>
mainVars == <<argv, mpc, GOAL, usage, mexc, constructed, spinning>>
vars == <<ctlVars, pidVars, wrapVars, mainVars, steps>>

NoUpdate ==
    [op |-> "none", t |-> Zero, before |-> NoPID, exc |-> "none", out |-> Zero,
     twin_out |-> Zero, error |-> Zero, dt |-> Zero, de |-> Zero,
     derivative |-> Zero]

CtlIdle ==
    /\ cpc = "off" /\ goal = NoGoal /\ heading_pid = NoPID /\ distance_pid = NoPID
    /\ steering = Zero /\ throttle = Zero /\ cb = NoCallback
PidIdle == pid = NoPID /\ twin = NoPID /\ upd = NoUpdate
WrapIdle == wrapIn = Zero /\ wrapOut = [done |-> FALSE, v |-> Zero]
MainIdle ==
    /\ argv = <<SCRIPT>> /\ mpc = "off" /\ GOAL = GOAL_DEFAULT /\ usage = FALSE
    /\ mexc = "none" /\ constructed = FALSE /\ spinning = FALSE

\* -------------------------------------------- the controller node (SpecCtl)
\* the state when JetRacerController() is entered with GOAL as the module
\* defines it (main never assigns both of its elements, see SpecMain)
CtlInit ==
    /\ cpc = "setup" /\ goal = NoGoal /\ heading_pid = NoPID /\ distance_pid = NoPID
    /\ steering = Zero /\ throttle = Zero /\ cb = NoCallback
    /\ steps = 0
    /\ PidIdle /\ WrapIdle /\ MainIdle

\* rospy delivers a message to the callback from the subscription on
Subscribed == cpc \in {"goal", "heading_pid", "distance_pid", "done"}

\* rospy.init_node and the two publishers
CtorSetup ==
    /\ cpc = "setup"
    /\ cpc' = "subscribe"
    /\ UNCHANGED <<goal, heading_pid, distance_pid, steering, throttle, cb, steps,
                   pidVars, wrapVars, mainVars>>

\* rospy.Subscriber(POSE_TOPIC, PoseStamped, self.pose_callback)
CtorSubscribe ==
    /\ cpc = "subscribe"
    /\ cpc' = "goal"
    /\ UNCHANGED <<goal, heading_pid, distance_pid, steering, throttle, cb, steps,
                   pidVars, wrapVars, mainVars>>

\* self.goal = GOAL
CtorGoal ==
    /\ cpc = "goal"
    /\ goal' = [set |-> TRUE, xy |-> GOAL]
    /\ cpc' = "heading_pid"
    /\ UNCHANGED <<heading_pid, distance_pid, steering, throttle, cb, steps,
                   pidVars, wrapVars, mainVars>>

\* self.heading_pid = PIDController(0.3, 0.0, 0.02)
CtorHeadingPid ==
    /\ cpc = "heading_pid"
    /\ \E t \in Times :
         heading_pid' = PIDNew(HeadingGains.kp, HeadingGains.ki, HeadingGains.kd, t)
    /\ cpc' = "distance_pid"
    /\ UNCHANGED <<goal, distance_pid, steering, throttle, cb, steps,
                   pidVars, wrapVars, mainVars>>

\* self.distance_pid = PIDController(0.25, 0.0, 0.4)
CtorDistancePid ==
    /\ cpc = "distance_pid"
    /\ \E t \in Times :
         distance_pid' = PIDNew(DistanceGains.kp, DistanceGains.ki, DistanceGains.kd, t)
    /\ cpc' = "done"
    /\ UNCHANGED <<goal, heading_pid, steering, throttle, cb, steps,
                   pidVars, wrapVars, mainVars>>

\* a pose message is delivered: rospy runs the callback on the thread of the
\* subscription, whatever statement __init__ has reached; an exception of
\* the callback is logged by rospy and the node goes on
PoseCallback ==
    /\ Subscribed
    /\ steps < MaxSteps
    /\ \E msg \in Poses :
         \E e \in {pose_callback_errors(goal, msg)}, t1 \in Times, t2 \in Times :
         \E r \in {pose_callback_control(heading_pid, distance_pid, e, t1, t2)} :
             /\ heading_pid' = r.heading_pid
             /\ distance_pid' = r.distance_pid
             /\ steering' = IF r.published THEN r.steering ELSE steering
             /\ throttle' = IF r.published THEN r.throttle ELSE throttle
             /\ cb' = r.cb
    /\ steps' = steps + 1
    /\ UNCHANGED <<cpc, goal, pidVars, wrapVars, mainVars>>

CtlNext ==
    \/ CtorSetup
    \/ CtorSubscribe
    \/ CtorGoal
    \/ CtorHeadingPid
    \/ CtorDistancePid
    \/ PoseCallback

SpecCtl == CtlInit /\ [][CtlNext]_vars

\* ------------------------------------------ a PIDController alone (SpecPid)
PidInit ==
    /\ \E g \in Gains, t \in Times :
         /\ pid = PIDNew(g.kp, g.ki, g.kd, t)
         /\ upd = [NoUpdate EXCEPT !.op = "init", !.t = t]
    /\ twin = NoPID
    /\ steps = 0
    /\ CtlIdle /\ WrapIdle /\ MainIdle

\* update(error), on the controller and, once there is one, on its twin with
\* the same clock reading
PidUpdateCall ==
    /\ steps < MaxCalls
    /\ \E error \in Errors, t \in Times :
         \E r \in {PIDUpdate(pid, error, t)}, w \in {PIDUpdate(twin, error, t)} :
             /\ pid' = r.pid
             /\ twin' = IF twin.set THEN w.pid ELSE twin
             /\ upd' = [op |-> "update", t |-> t, before |-> pid,
                        exc |-> r.exc, out |-> r.out,
                        twin_out |-> IF twin.set THEN w.out ELSE Zero,
                        error |-> r.error, dt |-> r.dt, de |-> r.de,
                        derivative |-> r.derivative]
    /\ steps' = steps + 1
    /\ UNCHANGED <<ctlVars, wrapVars, mainVars>>

\* reset(); the twin is constructed with the same gains at the same clock
\* reading
PidResetCall ==
    /\ steps < MaxCalls
    /\ \E t \in Times :
         /\ pid' = PIDReset(pid, t)
         /\ twin' = PIDNew(pid.kp, pid.ki, pid.kd, t)
         /\ upd' = [NoUpdate EXCEPT !.op = "reset", !.t = t, !.before = pid]
    /\ steps' = steps + 1
    /\ UNCHANGED <<ctlVars, wrapVars, mainVars>>

PidNext == PidUpdateCall \/ PidResetCall

SpecPid == PidInit /\ [][PidNext]_vars

\* ------------------------------------------------- angle_wrap (SpecWrap)
WrapInit ==
    /\ wrapIn \in WrapInputs
    /\ wrapOut = [done |-> FALSE, v |-> Zero]
    /\ steps = 0
    /\ CtlIdle /\ PidIdle /\ MainIdle

ApplyAngleWrap ==
    /\ ~wrapOut.done
    /\ wrapOut' = [done |-> TRUE, v |-> angle_wrap(wrapIn)]
    /\ UNCHANGED <<wrapIn, steps, ctlVars, pidVars, mainVars>>

WrapNext == ApplyAngleWrap

SpecWrap == WrapInit /\ [][WrapNext]_vars

\* ------------------------------------------------------- main (SpecMain)
\* __main__: main(len(sys.argv), sys.argv)
MainInit ==
    /\ argv \in Argvs
    /\ mpc = "check" /\ GOAL = GOAL_DEFAULT /\ usage = FALSE /\ mexc = "none"
    /\ constructed = FALSE /\ spinning = FALSE
    /\ steps = 0
    /\ CtlIdle /\ PidIdle /\ WrapIdle

\* if argc != 2: print(USAGE); return
MainCheckArgc ==
    /\ mpc = "check"
    /\ IF Len(argv) # 2
       THEN usage' = TRUE /\ mpc' = "returned"
       ELSE usage' = usage /\ mpc' = "goal_x"
    /\ UNCHANGED <<argv, GOAL, mexc, constructed, spinning, steps,
                   ctlVars, pidVars, wrapVars>>

\* GOAL[0] = argv[X_ARG]  (argv[i] of Python is argv[i + 1] here)
MainSetGoalX ==
    /\ mpc = "goal_x"
    /\ IF X_ARG + 1 <= Len(argv)
       THEN GOAL' = [GOAL EXCEPT ![1] = Str(argv[X_ARG + 1])]
            /\ mpc' = "goal_y" /\ mexc' = mexc
       ELSE GOAL' = GOAL /\ mpc' = "raised" /\ mexc' = "IndexError"
    /\ UNCHANGED <<argv, usage, constructed, spinning, steps,
                   ctlVars, pidVars, wrapVars>>

\* GOAL[1] = argv[Y_ARG]; controller = JetRacerController(); rospy.spin()
MainSetGoalYAndRun ==
    /\ mpc = "goal_y"
    /\ IF Y_ARG + 1 <= Len(argv)
       THEN /\ GOAL' = [GOAL EXCEPT ![2] = Str(argv[Y_ARG + 1])]
            /\ constructed' = TRUE
            /\ spinning' = TRUE
            /\ mpc' = "spin" /\ mexc' = mexc
       ELSE /\ GOAL' = GOAL /\ constructed' = constructed /\ spinning' = spinning
            /\ mpc' = "raised" /\ mexc' = "IndexError"
    /\ UNCHANGED <<argv, usage, steps, ctlVars, pidVars, wrapVars>>

MainNext == MainCheckArgc \/ MainSetGoalX \/ MainSetGoalYAndRun

SpecMain == MainInit /\ [][MainNext]_vars

\* ------------------------------------------------------------------ claims
InRange(a, lo, hi) == FLe(F(lo), a) /\ FLe(a, F(hi))

\* C1: whenever pose_callback has published, the steering published lies in
\* [-1.0, 1.0] and the throttle published lies in [0.0, 0.2].
PublishedInRange ==
    cb.outcome = "ok" =>
        /\ InRange(steering, STEER_MIN, STEER_MAX)
        /\ InRange(throttle, THROTTLE_MIN, THROTTLE_MAX)

\* C2: whenever the distance to the goal is at most ERR_EPSILON, the throttle
\* published by pose_callback is exactly 0.0, whatever the distance PID
\* returned.
DeadbandThrottleZero ==
    (cb.outcome = "ok" /\ FLe(cb.goal_dist, F(ERR_EPSILON))) => throttle = Zero

\* a callback on the edge of the deadband whose distance PID asked for
\* throttle, after an earlier callback that had published throttle
DeadbandWitness ==
    /\ cb.outcome = "ok"
    /\ cb.goal_dist = F(ERR_EPSILON)
    /\ FGt(cb.raw_throttle, Zero)
    /\ distance_pid.integral # Zero
    /\ throttle = Zero

MainEnded == mpc \in {"returned", "raised", "spin"}

\* the goal is missing or malformed: no coordinates, only x, or two arguments
\* of which one is no number
GoalMissingOrMalformed ==
    \/ Len(argv) <= 2
    \/ Len(argv) = 3 /\ ~(IsNumeric(argv[2]) /\ IsNumeric(argv[3]))

\* started as the usage message describes: an x and a y coordinate
GoalWellFormed == Len(argv) = 3 /\ IsNumeric(argv[2]) /\ IsNumeric(argv[3])

\* C3: with the goal missing or malformed, main ends with the usage message
\* printed, without constructing the controller and without entering
\* rospy.spin.
MalformedGoalEndsWithUsage ==
    (MainEnded /\ GoalMissingOrMalformed) =>
        /\ usage
        /\ mexc = "none"
        /\ ~constructed
        /\ ~spinning

\* C4: started with exactly an x and a y coordinate, main sets the goal to
\* them, constructs the controller and reaches rospy.spin, without printing
\* the usage message.
WellFormedGoalReachesSpin ==
    (MainEnded /\ GoalWellFormed) =>
        /\ mpc = "spin"
        /\ GOAL = <<Str(argv[2]), Str(argv[3])>>
        /\ constructed
        /\ spinning
        /\ ~usage

\* C5: angle_wrap returns a value in (-pi, pi] that differs from its argument
\* by a multiple of 2*pi.
AngleWrapHalfOpen ==
    wrapOut.done =>
        /\ FLt(F(-PI), wrapOut.v)
        /\ FLe(wrapOut.v, F(PI))
        /\ (wrapOut.v.v - wrapIn.v) % TWO_PI = 0

\* C6: an update whose dt is zero or negative raises nothing, uses 0 as the
\* derivative and returns kp*error + ki*integral; an update whose dt is
\* positive uses (error - last_error) / dt.
NonPositiveDtDerivativeZero ==
    upd.op = "update" =>
        /\ ~FGt(upd.dt, Zero) =>
              /\ upd.exc = "none"
              /\ upd.derivative = Zero
              /\ upd.out = FAdd(FMul(pid.kp, upd.error), FMul(pid.ki, pid.integral))
        /\ FGt(upd.dt, Zero) =>
              upd.derivative = FDiv(FSub(upd.error, upd.before.last_error), upd.dt)

\* an update at an earlier clock reading than the last one, with an error
\* that changed and an integral term that counts
NegativeDtWitness ==
    /\ upd.op = "update"
    /\ FLt(upd.dt, Zero)
    /\ upd.de # Zero /\ IsFin(upd.de)
    /\ pid.ki # Zero
    /\ pid.integral # Zero
    /\ upd.out = FAdd(FMul(pid.kp, upd.error), FMul(pid.ki, pid.integral))

\* C7: from a reset on, the controller is in the state of a controller with
\* the same gains constructed at the reset time and given the same update
\* calls, and every update returns what that controller returns.
ResetEqualsFresh ==
    twin.set =>
        /\ pid = twin
        /\ upd.op = "reset" => pid = PIDNew(pid.kp, pid.ki, pid.kd, upd.t)
        /\ upd.op = "update" => upd.out = upd.twin_out

\* a reset of a controller with an integral, a last error and an older
\* timestamp
ResetDirtyWitness ==
    /\ upd.op = "reset"
    /\ upd.before.integral # Zero
    /\ upd.before.last_error # Zero
    /\ upd.before.last_time # upd.t
    /\ pid = twin

\* C8: last_time never decreases over an update or a reset.
LastTimeNeverDecreases ==
    upd.op \in {"update", "reset"} => FLe(upd.before.last_time, pid.last_time)

\* C9: with the pose position equal to the goal, the heading error fed to the
\* heading PID is 0, for every (finite) yaw of the vehicle.
HeadingErrorZeroAtGoal ==
    (cb.outcome = "ok" /\ cb.x = goal.xy[1].f /\ cb.y = goal.xy[2].f /\ IsFin(cb.yaw)) =>
        cb.heading_error = Zero

\* C10: no pose_callback runs before __init__ has assigned self.goal,
\* self.heading_pid and self.distance_pid.
CallbackSeesInitialized ==
    cb.outcome # "none" =>
        /\ cb.outcome # "AttributeError"
        /\ goal.set /\ heading_pid.set /\ distance_pid.set

====
